---- MODULE Spec2Model ----
(***************************************************************************)
(* A model of src/base/fm-templates.c (libfm): the registry of file        *)
(* templates.  The registry is the list `templates` of FmTemplate objects, *)
(* the list `templates_dirs` of watched directories, each directory's list *)
(* of FmTemplateFile entries, and each template's priority chain of        *)
(* entries.  The handlers on_job_finished, on_dir_changed,                 *)
(* _fm_templates_init, _fm_templates_finalize, fm_template_list_all and    *)
(* the release of a reference by a caller are the actions.                 *)
(***************************************************************************)
EXTENDS Integers, Sequences, FiniteSets, TLC

(***************************************************************************)
(* Bounds of the model.                                                    *)
(***************************************************************************)
\* number of system data directories that may hold a "templates" directory
NumSysDirs == 1
\* FmTemplateFile entries alive at one time, where the merge of the chains is
\* explored (SpecMerge) and where the whole registry is (Spec)
MaxEntries == 3
MaxLive == 2
\* references to one FmTemplate held by callers of fm_template_list_all
MaxExt == 1
\* FmTemplate objects allocated at one time
MaxTempl == 3
\* file infos in the result of one listing job
MaxListing == 2

\* NULL: as a string, as an object, as an FmPath, as a URL
NoVal == "NULL"
Null == 0
NoPath == <<>>
NoUrl == [abs |-> FALSE, base |-> <<>>]

(***************************************************************************)
(* Directories.  _fm_templates_init puts XDG_TEMPLATES_DIR first, the      *)
(* templates directory of the user data directory second and the system    *)
(* directories after them, in the order of g_get_system_data_dirs().       *)
(***************************************************************************)
XdgDir == 1
UserDataDir == XdgDir + 1
SysDirs == (UserDataDir + 1)..(UserDataDir + NumSysDirs)
DirIds == {XdgDir, UserDataDir} \cup SysDirs

(***************************************************************************)
(* File names are <<stem, extension>>; g_str_has_suffix(name, ".desktop")  *)
(* looks at the extension.                                                 *)
(***************************************************************************)
DesktopNames == {<<"a", "desktop">>, <<"b", "desktop">>}
PlainNames == {<<"c", "txt">>}
Names == DesktopNames \cup PlainNames
HasDesktopSuffix(basename) == basename[2] = "desktop"

\* the FmTemplateFile of directory d for the file name n
Entry(d, n) == <<d, n>>
EDir(e) == e[1]
EName(e) == e[2]
DesktopSlots == {Entry(d, n) : d \in DirIds, n \in DesktopNames}

(***************************************************************************)
(* What a handler reads of a desktop entry file: the result of             *)
(* g_key_file_load_from_file and of the keys the code asks for, and the    *)
(* result of the stat() that the MIME guess ends with.  A URL is           *)
(* [abs, base]: an absolute path or one relative to the directory.         *)
(***************************************************************************)
Url(abs, base) == [abs |-> abs, base |-> base]
Obs(ok, hidden, mime, type, url, icon, exec, name, comment, st) ==
    [ok |-> ok, hidden |-> hidden, mime |-> mime, type |-> type, url |-> url,
     icon |-> icon, exec |-> exec, name |-> name, comment |-> comment, st |-> st]

\* a file that is no key file
ObsBad == Obs(FALSE, FALSE, NoVal, NoVal, NoUrl, NoVal, NoVal, NoVal, NoVal, "file")
\* Hidden=true, every key defined
ObsHidden == Obs(TRUE, TRUE, "text/plain", NoVal, Url(FALSE, <<"h", "txt">>),
                 "ih", "eh", "nh", "ch", "file")
\* MimeType, URL (the plain file beside it), Icon
ObsFull == Obs(TRUE, FALSE, "text/plain", NoVal, Url(FALSE, <<"c", "txt">>),
               "i1", NoVal, NoVal, NoVal, "file")
\* no MimeType key, no URL, Type=Application, Icon, Exec, Name, Comment
ObsApp == Obs(TRUE, FALSE, NoVal, "Application", NoUrl,
              "i2", "e2", "n2", "c2", "file")
\* no MimeType key, an absolute URL naming a directory, Name
ObsDir == Obs(TRUE, FALSE, NoVal, NoVal, Url(TRUE, <<"newdir", "">>),
              NoVal, NoVal, "n3", NoVal, "dir")

Contents == {ObsBad, ObsHidden, ObsFull, ObsApp, ObsDir}

(***************************************************************************)
(* What the environment is taken to do in one specification: the contents  *)
(* a desktop entry file appears with (new) and is changed to (cs), the     *)
(* files that appear in each directory (names), the directories that are   *)
(* on disk (present: the others are never listed nor reported), the number *)
(* of entries (cap), and whether the state tells the cases apart in which  *)
(* a handler changes nothing (detail).  A file changes when the monitor    *)
(* reports it.                                                             *)
(***************************************************************************)
Env(new, cs, names, present, cap, detail) ==
    [new |-> new, cs |-> cs, names |-> names, present |-> present, cap |-> cap,
     detail |-> detail]

(***************************************************************************)
(* FmPath values: <<directory, basename>>, with directory 0 for the root   *)
(* of an absolute path.                                                    *)
(***************************************************************************)
Root == Null
PathNewChild(d, basename) == <<d, basename>>
ResolveUrl(d, url) == IF url.abs THEN <<Root, url.base>> ELSE <<d, url.base>>

\* g_content_type_guess on a base name: the type, or NoVal when uncertain
ContentTypeGuess(basename) ==
    IF basename[2] = "txt" THEN "text/plain" ELSE NoVal

(***************************************************************************)
(* _fm_template_guess_mime_type(path, is_desktop_entry), where dk maps     *)
(* each desktop entry file to what is read of it.  The file a URL names is *)
(* never a desktop entry here.                                             *)
(***************************************************************************)
GuessFromAttributes(st) ==
    IF st = "missing" THEN NoVal
    ELSE IF st = "dir" THEN "inode/directory"
    ELSE NoVal

GuessMimeType(d, basename, is_desktop_entry, dk) ==
    LET c == dk[Entry(d, basename)]
        type == IF is_desktop_entry /\ c.ok THEN c.mime ELSE NoVal
        shifted == is_desktop_entry /\ c.ok /\ type = NoVal /\ c.url # NoUrl
        base == IF shifted THEN c.url.base ELSE basename
        st == IF is_desktop_entry THEN c.st ELSE "file"
    IN  IF type # NoVal THEN type
        ELSE IF HasDesktopSuffix(base)
             THEN IF c.ok /\ c.type = "Application"
                  THEN "application/x-desktop"
                  ELSE GuessFromAttributes(st)
             ELSE IF ContentTypeGuess(base) # NoVal
                  THEN ContentTypeGuess(base)
                  ELSE GuessFromAttributes(st)


(***************************************************************************)
(* The state.                                                              *)
(***************************************************************************)
VARIABLES
    templates_dirs, \* the list of FmTemplateDir, by identity; <<>> is NULL
    dirs,           \* DirIds -> [files, monitor, user_dir, ..]: each FmTemplateDir
    job,            \* the listing jobs that have not finished
    tfile,          \* the FmTemplateFile objects: entry -> [templ, is_desktop_entry, ..]
    templ,          \* the FmTemplate objects: id -> record
    templates,      \* the list `templates`, of FmTemplate ids, newest first
    ext,            \* id -> references to the FmTemplate held by callers
    disk,           \* what is read of the desktop entry file of each entry
    fault,          \* "none", or how the process stopped
    result,         \* what the last call of the public interface returned
    last,           \* the handler that ran last and what it did
    thr             \* the operation each thread is in, and who holds the lock

vars == <<templates_dirs, dirs, job, tfile, templ, templates, ext, disk,
          fault, result, last, thr>>

(***************************************************************************)
(* Sequences.                                                              *)
(***************************************************************************)
Range(s) == {s[i] : i \in 1..Len(s)}
Prepend(x, s) == <<x>> \o s
InsertAt(s, i, x) == SubSeq(s, 1, i - 1) \o <<x>> \o SubSeq(s, i, Len(s))
RemoveAt(s, i) == SubSeq(s, 1, i - 1) \o SubSeq(s, i + 1, Len(s))
IndexOf(s, x) == IF x \in Range(s)
                 THEN CHOOSE i \in 1..Len(s) : s[i] = x /\ \A j \in 1..(i - 1) : s[j] # x
                 ELSE 0
\* g_list_remove: the first occurrence
ListRemove(s, x) == IF IndexOf(s, x) = 0 THEN s ELSE RemoveAt(s, IndexOf(s, x))
Without(f, x) == [y \in (DOMAIN f) \ {x} |-> f[y]]
With(f, x, v) == [y \in (DOMAIN f) \cup {x} |-> IF y = x THEN v ELSE f[y]]

(***************************************************************************)
(* The registry a handler works on: R.templ, R.tfile, R.templates,         *)
(* R.files (each directory's list of entries, newest first), R.fault,      *)
(* R.updated (the templates _fm_template_update ran on, in order), R.over  *)
(* (the handler needs more objects than the bounds allow) and R.error_null *)
(* (the GError pointer of line 288, which is not initialised, is NULL).    *)
(***************************************************************************)
Registry(tp, tf, ts, fs) ==
    [templ |-> tp, tfile |-> tf, templates |-> ts, files |-> fs,
     fault |-> "none", updated |-> <<>>, over |-> FALSE, error_null |-> TRUE,
     steps |-> <<>>]

\* g_object_new(FM_TEMPLATE_TYPE): a zeroed instance with one reference
NewTemplate(mime_type) ==
    [mime_type |-> mime_type, files |-> <<>>, template_file |-> NoPath,
     icon |-> NoVal, command |-> NoVal, prompt |-> NoVal, label |-> NoVal,
     ref_count |-> 1, finalizing |-> FALSE]

TemplIds == 1..MaxTempl
FreeId(tp) == CHOOSE i \in TemplIds :
                 i \notin DOMAIN tp /\ \A j \in 1..(i - 1) : j \in DOMAIN tp

(***************************************************************************)
(* _fm_template_update_from_file: the fold of one chain entry into the     *)
(* template, after the entries behind it.                                  *)
(***************************************************************************)
\* the value the template had stays
DefinedFirst(old, new) == IF old # NoVal THEN old ELSE new
\* lines 307-335, one key: the value of the key, if the file has the key
Defined(old, new) == IF new # NoVal THEN new ELSE old

\* the plain file takes the target whatever the template has
PlainTargetAlways(old, file) == PathNewChild(EDir(file), EName(file))
\* lines 351-353: a plain file gives the target if there is none yet
PlainTarget(old, file) ==
    IF old = NoPath THEN PathNewChild(EDir(file), EName(file)) ELSE old

ApplyFile(R, t, file, dk) ==
    LET T == R.templ[t]
        F == R.tfile[file]
        c == dk[file]
    IN  IF F.is_desktop_entry
        THEN IF c.ok
             THEN LET T2 == IF c.hidden THEN T
                            ELSE [T EXCEPT
                                   !.template_file =
                                       IF c.url # NoUrl
                                       THEN ResolveUrl(EDir(file), c.url) ELSE @,
                                   !.icon = Defined(@, c.icon),
                                   !.command = Defined(@, c.exec),
                                   !.label = Defined(@, c.name),
                                   !.prompt = Defined(@, c.comment)]
                  IN  [R EXCEPT !.tfile[file].inactive = c.hidden,
                                !.tfile[file].inactive_set = TRUE,
                                !.templ[t] = T2]
             \* lines 339-340: error->message and g_error_free(error)
             ELSE IF R.error_null THEN R ELSE [R EXCEPT !.fault = "wild_pointer"]
        ELSE [R EXCEPT !.templ[t].template_file = PlainTarget(@, file)]

RECURSIVE UpdateFromFile(_, _, _, _)
UpdateFromFile(R, t, chain, dk) ==
    IF chain = <<>> THEN R
    ELSE ApplyFile(UpdateFromFile(R, t, Tail(chain), dk), t, Head(chain), dk)

\* the fold over what the template holds
UpdateNoClear(R, t, dk) ==
    UpdateFromFile([R EXCEPT !.updated = Append(@, t)], t, R.templ[t].files, dk)

\* _fm_template_update
Update(R, t, dk) ==
    LET cleared == [R EXCEPT !.templ[t].template_file = NoPath,
                             !.templ[t].icon = NoVal,
                             !.templ[t].command = NoVal,
                             !.templ[t].prompt = NoVal,
                             !.updated = Append(@, t)]
    IN  UpdateFromFile(cleared, t, cleared.templ[t].files, dk)

(***************************************************************************)
(* _fm_template_insert_sorted: the walk along the chain with the directory *)
(* cursor last_dir (an index into the directory list dl, Len(dl) + 1 for   *)
(* NULL); the result is the index the new entry is linked in at.           *)
(***************************************************************************)
RECURSIVE AdvanceDir(_, _, _, _)
AdvanceDir(ld, fdir, ndir, dl) ==
    IF ld <= Len(dl) /\ dl[ld] # fdir /\ dl[ld] # ndir
    THEN AdvanceDir(ld + 1, fdir, ndir, dl)
    ELSE ld

\* the new entry goes to the head
InsertPosHead(i, ld, chain, file, tf, dl) == 1

\* the new entry goes behind the entries of its directory and kind
InsertPosBehindEqual(i, ld, chain, file, tf, dl) ==
    1 + Cardinality({k \in 1..Len(chain) :
            \/ IndexOf(dl, EDir(chain[k])) < IndexOf(dl, EDir(file))
            \/ /\ EDir(chain[k]) = EDir(file)
               /\ (tf[chain[k]].is_desktop_entry \/ ~tf[file].is_desktop_entry)})

RECURSIVE InsertPos(_, _, _, _, _, _)
InsertPos(i, ld, chain, file, tf, dl) ==
    IF i > Len(chain) THEN i
    ELSE LET next == chain[i]
             ld2 == AdvanceDir(ld, EDir(file), EDir(next), dl)
         IN  IF ld2 > Len(dl) THEN i
             ELSE IF dl[ld2] = EDir(file)
                  THEN IF EDir(next) = dl[ld2] /\ ~tf[file].is_desktop_entry
                       THEN IF ~tf[next].is_desktop_entry
                            THEN i
                            ELSE InsertPos(i + 1, ld2, chain, file, tf, dl)
                       ELSE i
                  ELSE InsertPos(i + 1, ld2, chain, file, tf, dl)

InsertSorted(R, t, file, dl, dk) ==
    LET chain == R.templ[t].files
        pos == InsertPos(1, 1, chain, file, R.tfile, dl)
        linked == [R EXCEPT !.templ[t].files = InsertAt(chain, pos, file)]
    IN  Update(linked, t, dk)

(***************************************************************************)
(* _fm_template_find_for_file: the template of the guessed MIME type, with *)
(* one more reference, or a new one at the head of `templates`.  The       *)
(* result is [R, t], t = NoVal when the type cannot be guessed.            *)
(***************************************************************************)
\* a new template for every file, without a look at `templates`
FindForFileNew(R, d, basename, is_desktop_entry, dk) ==
    LET mime_type == GuessMimeType(d, basename, is_desktop_entry, dk)
    IN  IF mime_type = NoVal THEN [R |-> R, t |-> Null]
        ELSE IF DOMAIN R.templ = TemplIds
        THEN [R |-> [R EXCEPT !.over = TRUE], t |-> Null]
        ELSE LET t == FreeId(R.templ)
             IN  [R |-> [R EXCEPT !.templ = With(@, t, NewTemplate(mime_type)),
                                  !.templates = Prepend(t, @)],
                  t |-> t]

FindForFile(R, d, basename, is_desktop_entry, dk) ==
    LET mime_type == GuessMimeType(d, basename, is_desktop_entry, dk)
        hits == {i \in 1..Len(R.templates) :
                     R.templ[R.templates[i]].mime_type = mime_type}
    IN  IF mime_type = NoVal THEN [R |-> R, t |-> Null]
        ELSE IF hits # {}
        THEN LET t == R.templates[CHOOSE i \in hits : \A j \in hits : i <= j]
             IN  [R |-> [R EXCEPT !.templ[t].ref_count = @ + 1], t |-> t]
        ELSE IF DOMAIN R.templ = TemplIds
        THEN [R |-> [R EXCEPT !.over = TRUE], t |-> Null]
        ELSE LET t == FreeId(R.templ)
             IN  [R |-> [R EXCEPT !.templ = With(@, t, NewTemplate(mime_type)),
                                  !.templates = Prepend(t, @)],
                  t |-> t]

(***************************************************************************)
(* fm_template_finalize, entered from g_object_unref when the last         *)
(* reference goes.  It locks `templates`: lock_held says that the caller   *)
(* holds that lock already, and relock is what locking it again does.      *)
(***************************************************************************)
RelockOutcomes == {"deadlock", "recursive"}

FinalizeTemplate(R, t, lock_held, relock) ==
    IF lock_held /\ relock = "deadlock"
    THEN [R EXCEPT !.fault = "deadlock"]
    ELSE LET removed == [R EXCEPT !.templates = ListRemove(@, t)]
         IN  IF R.templ[t].files # <<>>
             THEN [removed EXCEPT !.fault = "g_error"]
             ELSE [removed EXCEPT !.templ = Without(@, t)]

\* g_object_unref(templ)
Unref(R, t, lock_held, relock) ==
    IF R.templ[t].ref_count = 0 \/ (R.templ[t].finalizing /\ R.templ[t].ref_count = 1)
    THEN [R EXCEPT !.fault = "use_after_free"]
    ELSE IF R.templ[t].ref_count = 1
    THEN FinalizeTemplate([R EXCEPT !.templ[t].ref_count = 0], t, lock_held, relock)
    ELSE [R EXCEPT !.templ[t].ref_count = @ - 1]

(***************************************************************************)
(* _fm_template_file_free(templ, file, do_update)                          *)
(***************************************************************************)
\* the entry is freed and stays linked in the chain
FileFreeLinked(R, file, do_update, dk, lock_held, relock) ==
    [R EXCEPT !.tfile = Without(@, file)]

FileFree(R, file, do_update, dk, lock_held, relock) ==
    LET t == R.tfile[file].templ
        unlinked == [R EXCEPT !.templ[t].files = ListRemove(@, file)]
        unrefd == Unref(unlinked, t, lock_held, relock)
        freed == [unrefd EXCEPT !.tfile = Without(@, file)]
    IN  IF unrefd.fault # "none" THEN unrefd
        ELSE IF ~do_update THEN freed
        ELSE IF t \notin DOMAIN freed.templ
        THEN [freed EXCEPT !.fault = "use_after_free"]
        ELSE Update(freed, t, dk)


(***************************************************************************)
(* What the handlers leave in the state.                                   *)
(***************************************************************************)
NoObjects == [x \in {} |-> NoVal]
\* the listing jobs that run: job.live, the directories whose job runs, with
\* on_job_finished connected to the FmTemplateDir; job.orphans, whether a job
\* runs whose FmTemplateDir _fm_templates_finalize has freed
NoJob == [live |-> {}, orphans |-> FALSE]
\* user_dir_set and, in an entry, inactive_set: the bit has been written since
\* g_slice_new; until then it holds what the memory held
NoDir == [files |-> <<>>, monitor |-> FALSE, user_dir |-> FALSE, user_dir_set |-> FALSE]
NoDisk == [s \in DesktopSlots |-> ObsBad]
NoGarbage == [x \in {} |-> FALSE]
\* what a call of fm_template_create_file did: copied, g_file_copy wrote the
\* destination; launched, g_app_info_launch ran; launch_ok, what the launch
\* returns when it runs; ret, the return value of the call
NoCreate == [called |-> FALSE, copied |-> FALSE, launched |-> FALSE,
             launch_ok |-> FALSE, ret |-> FALSE]
NoResult == [called |-> FALSE, user_only |-> FALSE, list |-> <<>>,
             inactive |-> NoGarbage, user_dir |-> NoGarbage, create |-> NoCreate]
\* the handler that ran: which one (op), on which case of it (note), the file
\* and the template it worked on, the templates it ran _fm_template_update on,
\* and for the teardown the steps it took, in their order
Last(op, note, file, t, updated) ==
    [op |-> op, note |-> note, file |-> file, t |-> t, updated |-> updated,
     steps |-> <<>>]
NoFile == <<>>
NoLast == Last("none", "", NoFile, Null, <<>>)

\* The threads: the one of the main loop, which runs the signal handlers, the
\* initialisation and the teardown, and one of a caller of the public
\* interface.  thr[th] is the operation th is in, thr.holder the thread that
\* holds G_LOCK(templates).
Threads == {"main", "caller"}
Idle == [main |-> "none", caller |-> "none", holder |-> "none"]
\* th returns from its operation; it holds no lock then
Return(th) ==
    thr' = [thr EXCEPT ![th] = "none", !.holder = IF @ = th THEN "none" ELSE @]

CurrentRegistry ==
    Registry(templ, tfile, templates, [d \in DirIds |-> dirs[d].files])

\* the registry at the start of a handler, and what its GError pointer can hold
\* when the files are dk
Working(error_null) == [CurrentRegistry EXCEPT !.error_null = error_null]
UninitError(dk) ==
    IF \E s \in DOMAIN tfile \cap DesktopSlots : ~dk[s].ok THEN BOOLEAN ELSE {TRUE}

\* dk on the files that have an entry in R, and ObsBad elsewhere
DiskOf(R, dk) == [s \in DesktopSlots |-> IF s \in DOMAIN R.tfile THEN dk[s] ELSE ObsBad]

\* the file is written with the contents c
Write(file, c) == IF file \in DesktopSlots THEN [disk EXCEPT ![file] = c] ELSE disk

\* A handler has taken a reference to a template whose finalizer waits for the
\* lock of `templates`: the finalizer gets the lock when the handler lets it go.
Doomed == \E t \in DOMAIN templ : templ[t].finalizing /\ templ[t].ref_count > 0
Running == fault = "none" /\ ~Doomed

\* The process stops (it is killed, aborts, or blocks for ever): what it held
\* is of no more use and is dropped from the state.
Stopped ==
    /\ templates_dirs' = <<>>
    /\ dirs' = [d \in DirIds |-> NoDir]
    /\ job' = NoJob
    /\ tfile' = NoObjects
    /\ templ' = NoObjects
    /\ templates' = <<>>
    /\ ext' = NoObjects
    /\ disk' = NoDisk
    /\ result' = NoResult
    /\ thr' = Idle

\* the process stops in the handler op, in its case note
Stop(kind, op, note) ==
    /\ fault' = kind
    /\ last' = Last(op, note, NoFile, Null, <<>>)
    /\ Stopped

\* The handler op ends with the registry R, the files being dk.
Commit(R, dk, j, op, note, file, t) ==
    /\ ~R.over
    /\ IF R.fault # "none"
       THEN Stop(R.fault, op, note)
       ELSE /\ templ' = R.templ
            /\ tfile' = R.tfile
            /\ templates' = R.templates
            /\ dirs' = [d \in DirIds |-> [dirs[d] EXCEPT !.files = R.files[d]]]
            /\ ext' = [x \in DOMAIN R.templ |->
                          IF x \in DOMAIN ext /\ x \in DOMAIN templ THEN ext[x] ELSE 0]
            /\ disk' = DiskOf(R, dk)
            /\ last' = Last(op, note, file, t, R.updated)
            /\ job' = j
            /\ result' = NoResult
            /\ Return("main")
            /\ UNCHANGED <<templates_dirs, fault>>

\* the handler op, called for file, drops the list `templates`
SkipFileUnlisting(P, op, note, file) ==
    Commit([CurrentRegistry EXCEPT !.templates = <<>>], disk, job, op, note, file, Null)

\* the handler op, called for file, returns having changed nothing
SkipFile(P, op, note, file) ==
    Commit(CurrentRegistry, disk, job,
           IF P.detail THEN op ELSE "skip", IF P.detail THEN note ELSE "",
           IF P.detail THEN file ELSE NoFile, Null)

\* the handler op returns having changed nothing
Skip(P, op, note) == SkipFile(P, op, note, NoFile)

(***************************************************************************)
(* Init: the state before _fm_templates_init: no directory, no template.   *)
(***************************************************************************)
Init ==
    /\ templates_dirs = <<>>
    /\ dirs = [d \in DirIds |-> NoDir]
    /\ job = NoJob
    /\ tfile = NoObjects
    /\ templ = NoObjects
    /\ templates = <<>>
    /\ ext = NoObjects
    /\ disk = NoDisk
    /\ fault = "none"
    /\ result = NoResult
    /\ last = NoLast
    /\ thr = Idle

(***************************************************************************)
(* _fm_templates_init.  The two user directories get their FmTemplateDir   *)
(* in any case, a system directory if it is on disk.  The user_dir bit of  *)
(* a system directory is never written.  A directory that is not on disk   *)
(* has no monitor and its listing ends with nothing.  The library is       *)
(* initialised anew only when nothing of its last run is left.             *)
(***************************************************************************)
RECURSIVE SeqOfSet(_)
SeqOfSet(S) == IF S = {} THEN <<>>
               ELSE LET x == CHOOSE y \in S : \A z \in S : y <= z
                    IN  <<x>> \o SeqOfSet(S \ {x})

\* lines 602-655: the directories are made and set up
BuildDirs(P) ==
    LET made == {XdgDir, UserDataDir} \cup (SysDirs \cap P.present)
    IN  /\ templates_dirs' = SeqOfSet(made)
        /\ dirs' = [d \in DirIds |->
                      IF d \in made
                      THEN [files |-> <<>>, monitor |-> d \in P.present,
                            user_dir |-> d \notin SysDirs,
                            user_dir_set |-> d \notin SysDirs]
                      ELSE NoDir]
        /\ job' = [job EXCEPT !.live = made \cap P.present]
        /\ last' = Last("init", "first", NoFile, Null, <<>>)
        /\ result' = NoResult
        /\ Return("main")
        /\ UNCHANGED <<tfile, templ, templates, ext, disk, fault>>

\* the directories are made at every call
InitAlways(P) ==
    /\ Running
    /\ BuildDirs(P)

fm_templates_init(P) ==
    /\ Running
    /\ IF templates_dirs # <<>>
       THEN /\ last' = Last(IF P.detail THEN "init" ELSE "skip",
                            IF P.detail THEN "again" ELSE "", NoFile, Null, <<>>)
            /\ result' = NoResult
            /\ Return("main")
            /\ UNCHANGED <<templates_dirs, dirs, job, tfile, templ, templates,
                           ext, disk, fault>>
       ELSE /\ templ = NoObjects
            /\ ~job.orphans
            /\ BuildDirs(P)

(***************************************************************************)
(* on_job_finished(job, dir): the listing job of directory d ends with the *)
(* file infos `listing`.  inact[n] is what the inactive bit of a new       *)
(* FmTemplateFile holds after g_slice_new, which does not clear it.        *)
(***************************************************************************)
NewFile(R, t, file, is_desktop_entry) ==
    [R EXCEPT !.tfile = With(@, file, [templ |-> t,
                                       is_desktop_entry |-> is_desktop_entry,
                                       inactive |-> FALSE,
                                       inactive_set |-> FALSE]),
              !.files[EDir(file)] = Prepend(file, @)]

RECURSIVE JobLoop(_, _, _, _, _)
JobLoop(R, d, listing, dl, dk) ==
    IF listing = <<>> \/ R.over THEN R
    ELSE LET n == Head(listing)
             file == Entry(d, n)
             found == FindForFile(R, d, n, HasDesktopSuffix(n), dk)
             next ==
                 IF file \in Range(R.files[d]) THEN R
                 ELSE IF found.t = Null THEN found.R
                 ELSE InsertSorted(
                          NewFile(found.R, found.t, file, HasDesktopSuffix(n)),
                          found.t, file, dl, dk)
         IN  JobLoop(next, d, Tail(listing), dl, dk)

\* the sequences without repetition of elements of S
RECURSIVE Listings(_)
Listings(S) ==
    {<<>>} \cup UNION {{<<x>> \o l : l \in Listings(S \ {x})} : x \in S}

on_job_finished(d, P) ==
    /\ Running
    /\ d \in job.live
    /\ \E listing \in {l \in Listings(P.names[d]) : Len(l) <= MaxListing} :
       LET new == {n \in Range(listing) : Entry(d, n) \notin Range(dirs[d].files)}
           guessed == {Entry(d, n) : n \in new \cap DesktopNames}
       IN  /\ Cardinality(DOMAIN tfile) + Cardinality(new) <= P.cap
           /\ \E g \in [guessed -> P.new] :
                LET dk == [s \in DesktopSlots |-> IF s \in guessed THEN g[s] ELSE disk[s]]
                IN  \E e \in UninitError(dk) :
                      LET R == JobLoop(Working(e), d, listing, templates_dirs, dk)
                      IN  Commit(R, dk, [job EXCEPT !.live = @ \ {d}],
                                 "listing", "", NoFile, Null)

\* the job of a directory that _fm_templates_finalize has freed ends:
\* on_job_finished works on the freed FmTemplateDir
on_job_finished_orphan ==
    /\ Running
    /\ job.orphans
    /\ Stop("use_after_free", "listing", "orphan")

(***************************************************************************)
(* on_dir_changed(mon, gf, other, evt, dir): the monitor of directory d    *)
(* reports evt on gf, a file of the directory or the directory itself.     *)
(* The handler holds the lock of `templates` from line 491 to line 568.    *)
(***************************************************************************)
DirItself == <<".", "">>
Events == {"CHANGED", "DELETED", "CREATED", "MOVED"}

\* no entry is ever found
FindInDirNever(d, n) == FALSE

\* the loops of lines 496, 510 and 528: the entry of the directory named n
FindInDir(d, n) == Entry(d, n) \in Range(dirs[d].files)

Changed(d, n, P) ==
    LET file == Entry(d, n)
        t == tfile[file].templ
    IN  IF ~FindInDir(d, n) THEN SkipFile(P, "changed", "unknown", file)
        ELSE IF ~tfile[file].is_desktop_entry THEN SkipFile(P, "changed", "plain", file)
        ELSE \E c \in P.cs : \E e \in UninitError(Write(file, c)) :
               Commit(Update(Working(e), t, Write(file, c)), Write(file, c), job,
                      "changed", "desktop", file, t)

Deleted(d, n, P) ==
    LET file == Entry(d, n)
        t == tfile[file].templ
        only == templ[t].files = <<file>>
        unlinked(e) == [Working(e) EXCEPT !.files[d] = ListRemove(@, file)]
    IN  IF ~FindInDir(d, n) THEN SkipFile(P, "deleted", "unknown", file)
        ELSE \E relock \in IF templ[t].ref_count = 1 THEN RelockOutcomes ELSE {"deadlock"} :
             \E e \in UninitError(disk) :
               Commit(FileFree(unlinked(e), file, TRUE, disk, TRUE, relock), disk, job,
                      "deleted", IF only THEN "last" ELSE "nonlast", file, t)

Created(d, n, P) ==
    LET file == Entry(d, n)
        is_desktop_entry == HasDesktopSuffix(n)
    IN  IF FindInDir(d, n) THEN SkipFile(P, "created", "duplicate", file)
        ELSE \E c \in IF is_desktop_entry THEN P.new ELSE {ObsBad} :
             \E e \in UninitError(Write(file, c)) :
               LET dk == Write(file, c)
                   found == FindForFile(Working(e), d, n, is_desktop_entry, dk)
                   created == NewFile(found.R, found.t, file, is_desktop_entry)
               IN  IF found.t = Null
                   THEN Commit(found.R, dk, job,
                               IF P.detail THEN "created" ELSE "skip",
                               IF P.detail THEN "unresolved" ELSE "",
                               IF P.detail THEN file ELSE NoFile, Null)
                   ELSE IF dirs[d].files = <<>>
                   \* line 545: dir->files->prev_in_dir = file, with dir->files NULL
                   THEN Commit([found.R EXCEPT !.fault = "null_deref"], dk, job,
                               "created", "new", file, found.t)
                   ELSE /\ Cardinality(DOMAIN tfile) < P.cap
                        /\ Commit(InsertSorted(created, found.t, file, templates_dirs, dk),
                                  dk, job, "created", "new", file, found.t)

on_dir_changed(d, P) ==
    /\ Running
    /\ d \in Range(templates_dirs)
    /\ dirs[d].monitor
    /\ \E evt \in Events, gf \in P.names[d] \cup {DirItself} :
          IF gf = DirItself THEN Skip(P, "ignored", "directory")
          ELSE CASE evt = "CHANGED" -> Changed(d, gf, P)
                 [] evt = "DELETED" -> Deleted(d, gf, P)
                 [] evt = "CREATED" -> Created(d, gf, P)
                 [] OTHER -> Skip(P, "ignored", "event")

(***************************************************************************)
(* _fm_templates_finalize: directory after directory, the monitor is       *)
(* detached and every entry of the directory is freed, without update and  *)
(* without the lock; the listing jobs are left running.                    *)
(***************************************************************************)
\* a step of the teardown: what it does, in which directory, to which entry
Step(what, d, file) == [what |-> what, dir |-> d, file |-> file]

RECURSIVE FreeFiles(_, _)
FreeFiles(R, files) ==
    IF files = <<>> \/ R.fault # "none" THEN R
    ELSE FreeFiles(FileFree([R EXCEPT !.files[EDir(Head(files))] = Tail(@),
                                      !.steps = Append(@, Step("free_file", EDir(Head(files)), Head(files)))],
                            Head(files), FALSE, NoDisk, FALSE, "deadlock"),
                   Tail(files))

\* the monitor is left connected
DetachNot(R, d) == R

\* lines 668-672: the monitor of the directory is disconnected and released
Detach(R, d) ==
    IF dirs[d].monitor THEN [R EXCEPT !.steps = Append(@, Step("detach", d, NoFile))] ELSE R

RECURSIVE FreeDirs(_, _)
FreeDirs(R, dl) ==
    IF dl = <<>> \/ R.fault # "none" THEN R
    ELSE LET d == Head(dl)
             freed == FreeFiles(Detach(R, d), R.files[d])
         IN  FreeDirs([freed EXCEPT !.steps = Append(@, Step("free_dir", d, NoFile))], Tail(dl))

fm_templates_finalize ==
    /\ Running
    /\ templates_dirs # <<>>
    /\ LET R == FreeDirs(CurrentRegistry, templates_dirs)
       IN  IF R.fault # "none"
           THEN Stop(R.fault, "finalize", "")
           ELSE /\ templates_dirs' = <<>>
                /\ dirs' = [d \in DirIds |-> NoDir]
                /\ job' = [live |-> {}, orphans |-> job.orphans \/ job.live # {}]
                /\ tfile' = R.tfile
                /\ templ' = R.templ
                /\ templates' = R.templates
                /\ ext' = [x \in DOMAIN R.templ |-> ext[x]]
                /\ disk' = NoDisk
                /\ result' = NoResult
                /\ last' = [Last("finalize", "", NoFile, Null, R.updated)
                               EXCEPT !.steps = R.steps]
                /\ Return("main")
                /\ UNCHANGED fault

(***************************************************************************)
(* fm_template_list_all(user_only): the tests of line 702 on the head of   *)
(* each chain, in the order of `templates`; the result is built by         *)
(* prepending, each element with one more reference.                       *)
(***************************************************************************)
\* the bit as line 702 reads it: what was written, or else what the memory holds
ReadBit(set, bit, garbage) == IF set THEN bit ELSE garbage

\* a template is listed if any entry of its chain is active
ListedAnyActive(t, user_only, gi, gu) ==
    \E e \in Range(templ[t].files) :
        /\ ~ReadBit(tfile[e].inactive_set, tfile[e].inactive, gi[e])
        /\ (~user_only \/ ReadBit(dirs[EDir(e)].user_dir_set, dirs[EDir(e)].user_dir,
                                  gu[EDir(e)]))

Listed(t, user_only, gi, gu) ==
    LET head == Head(templ[t].files)
        dir == dirs[EDir(head)]
    IN  /\ ~ReadBit(tfile[head].inactive_set, tfile[head].inactive, gi[head])
        /\ (~user_only \/ ReadBit(dir.user_dir_set, dir.user_dir, gu[EDir(head)]))

RECURSIVE ListAll(_, _, _, _)
ListAll(ts, user_only, gi, gu) ==
    IF ts = <<>> THEN <<>>
    ELSE IF Listed(Head(ts), user_only, gi, gu)
         THEN Append(ListAll(Tail(ts), user_only, gi, gu), Head(ts))
         ELSE ListAll(Tail(ts), user_only, gi, gu)

\* the templates up to and without the first one whose chain is empty
RECURSIVE BeforeNull(_)
BeforeNull(ts) ==
    IF ts = <<>> \/ templ[Head(ts)].files = <<>> THEN <<>>
    ELSE <<Head(ts)>> \o BeforeNull(Tail(ts))

Heads == {Head(templ[t].files) : t \in {x \in DOMAIN templ : templ[x].files # <<>>}}
Pad(S, garbage) == [x \in S |-> IF x \in DOMAIN garbage THEN garbage[x] ELSE FALSE]

fm_template_list_all(user_only) ==
    /\ Running
    /\ IF BeforeNull(templates) # templates
       \* line 702: ->files->inactive with files NULL
       THEN Stop("null_deref", "list_all", "")
       ELSE \E gi \in [{h \in Heads : ~tfile[h].inactive_set} -> BOOLEAN] :
            \E gu \in [{d \in DirIds : user_only /\ ~dirs[d].user_dir_set
                                       /\ dirs[d].files # <<>>} -> BOOLEAN] :
            LET inactive == Pad(DOMAIN tfile, gi)
                user_dir == Pad(DirIds, gu)
                list == ListAll(templates, user_only, inactive, user_dir)
            IN  /\ \A t \in Range(list) : ext[t] < MaxExt
                /\ templ' = [t \in DOMAIN templ |->
                               IF t \in Range(list)
                               THEN [templ[t] EXCEPT !.ref_count = @ + 1]
                               ELSE templ[t]]
                /\ ext' = [t \in DOMAIN ext |->
                             IF t \in Range(list) THEN ext[t] + 1 ELSE ext[t]]
                /\ result' = [called |-> TRUE, user_only |-> user_only, list |-> list,
                              inactive |-> gi, user_dir |-> gu, create |-> NoCreate]
                /\ last' = Last("skip", "", NoFile, Null, <<>>)
                /\ Return("caller")
                /\ UNCHANGED <<templates_dirs, dirs, job, tfile, templates, disk, fault>>

(***************************************************************************)
(* A caller gives back a reference it got from fm_template_list_all:       *)
(* g_object_unref.  With the last reference the finalizer starts, and it   *)
(* waits for the lock of `templates` before it does anything (Release);    *)
(* it runs once it has the lock (Finalize).                                *)
(***************************************************************************)
Release(t) ==
    /\ Running
    /\ t \in DOMAIN ext
    /\ ext[t] > 0
    /\ ext' = [ext EXCEPT ![t] = @ - 1]
    /\ templ' = [templ EXCEPT ![t].ref_count = @ - 1,
                              ![t].finalizing = (templ[t].ref_count = 1)]
    /\ result' = NoResult
    /\ last' = Last("skip", "", NoFile, Null, <<>>)
    /\ Return("caller")
    /\ UNCHANGED <<templates_dirs, dirs, job, tfile, templates, disk, fault>>

Finalize(t) ==
    /\ fault = "none"
    /\ t \in DOMAIN templ
    /\ templ[t].finalizing
    /\ LET R == FinalizeTemplate(CurrentRegistry, t, FALSE, "deadlock")
       IN  IF R.fault # "none"
           THEN Stop(R.fault, "finalized", "")
           ELSE /\ templ' = R.templ
                /\ templates' = R.templates
                /\ ext' = [x \in DOMAIN R.templ |-> ext[x]]
                /\ result' = NoResult
                /\ last' = Last("finalized", "", NoFile, Null, <<>>)
                /\ Return("caller")
                /\ UNCHANGED <<templates_dirs, dirs, job, tfile, disk, fault>>

LiveEnv == Env({ObsBad, ObsHidden, ObsFull, ObsApp},
               {ObsBad, ObsHidden, ObsFull, ObsApp},
               [d \in DirIds |-> {<<"a", "desktop">>, <<"c", "txt">>}],
               {XdgDir} \cup SysDirs, MaxLive, FALSE)

Next ==
    \/ fm_templates_init(LiveEnv)
    \/ \E d \in DirIds : on_job_finished(d, LiveEnv)
    \/ on_job_finished_orphan
    \/ \E d \in DirIds : on_dir_changed(d, LiveEnv)
    \/ fm_templates_finalize
    \/ \E user_only \in BOOLEAN : fm_template_list_all(user_only)
    \/ \E t \in TemplIds : Release(t)
    \/ \E t \in TemplIds : Finalize(t)

Spec == Init /\ [][Next]_vars
(***************************************************************************)
(* The merge of the chains on its own: all the directories are on disk and *)
(* have just been set up by _fm_templates_init, their listings run, and    *)
(* the files are changed to any of the contents.                           *)
(***************************************************************************)
MergeEnv == Env({ObsBad, ObsHidden, ObsFull}, Contents,
                [d \in DirIds |-> IF d = XdgDir THEN Names
                                  ELSE IF d = UserDataDir
                                       THEN {<<"a", "desktop">>, <<"c", "txt">>}
                                       ELSE PlainNames],
                {XdgDir, UserDataDir} \cup SysDirs, MaxEntries, FALSE)

InitMerge ==
    /\ templates_dirs = SeqOfSet(DirIds)
    /\ dirs = [d \in DirIds |-> [files |-> <<>>, monitor |-> TRUE,
                                 user_dir |-> d \notin SysDirs,
                                 user_dir_set |-> d \notin SysDirs]]
    /\ job = [live |-> DirIds, orphans |-> FALSE]
    /\ tfile = NoObjects
    /\ templ = NoObjects
    /\ templates = <<>>
    /\ ext = NoObjects
    /\ disk = NoDisk
    /\ fault = "none"
    /\ result = NoResult
    /\ last = Last("init", "first", NoFile, Null, <<>>)
    /\ thr = Idle

NextMerge ==
    \/ \E d \in DirIds : on_job_finished(d, MergeEnv)
    \/ \E d \in DirIds : on_dir_changed(d, MergeEnv)

SpecMerge == InitMerge /\ [][NextMerge]_vars
(***************************************************************************)
(* fm_template_create_file(templ, path, error), called by a holder of a    *)
(* reference to t.  The caller may pass no error location (error_null).    *)
(* app_ok: an application is made from the command, or the MIME type has a *)
(* default one.  copy: how g_file_copy of an existing GFile ends.  With    *)
(* template_file NULL the source GFile is NULL: g_file_copy returns FALSE  *)
(* and sets no error.  After a failed copy line 897 reads the domain of    *)
(* the GError that error points to.                                        *)
(* The note of the call is the branch it takes.                            *)
(***************************************************************************)
CopyOutcomes == {"ok", "not_found", "failed"}

CreateEnd(note, kind, copied, launched, launch_ok, ret) ==
    [note |-> note, fault |-> kind,
     create |-> [called |-> TRUE, copied |-> copied, launched |-> launched,
                 launch_ok |-> launch_ok, ret |-> ret]]

CreateFile(template_file, path_ok, error_null, app_ok, copy, launch_ok) ==
    IF ~path_ok THEN CreateEnd("invalid", "none", FALSE, FALSE, launch_ok, FALSE)
    ELSE IF ~app_ok THEN CreateEnd("no_app", "none", FALSE, FALSE, launch_ok, FALSE)
    ELSE IF template_file = NoPath
    THEN CreateEnd("no_target", "null_deref", FALSE, FALSE, launch_ok, FALSE)
    ELSE IF copy = "ok" THEN CreateEnd("copied", "none", TRUE, TRUE, launch_ok, launch_ok)
    ELSE IF error_null
    THEN CreateEnd(IF copy = "not_found" THEN "not_found" ELSE "copy_failed",
                   "null_deref", FALSE, FALSE, launch_ok, FALSE)
    ELSE IF copy = "not_found"
    THEN CreateEnd("not_found", "none", FALSE, TRUE, launch_ok, launch_ok)
    ELSE CreateEnd("copy_failed", "none", FALSE, FALSE, launch_ok, FALSE)

fm_template_create_file(t) ==
    /\ Running
    /\ t \in DOMAIN ext
    /\ ext[t] > 0
    /\ \E path_ok, error_null, app_ok, launch_ok \in BOOLEAN, copy \in CopyOutcomes :
        LET end == CreateFile(templ[t].template_file, path_ok, error_null, app_ok,
                              copy, launch_ok)
        IN  IF end.fault # "none"
            THEN Stop(end.fault, "create_file", end.note)
            ELSE /\ result' = [NoResult EXCEPT !.create = end.create]
                 /\ last' = Last("create_file", end.note, NoFile, t, <<>>)
                 /\ Return("caller")
                 /\ UNCHANGED <<templates_dirs, dirs, job, tfile, templ, templates,
                                ext, disk, fault>>

(***************************************************************************)
(* The callers of the public interface: the library is initialised, the    *)
(* listing of the XDG templates directory ends, a caller lists the         *)
(* templates and creates files from them.                                  *)
(***************************************************************************)
CallEnv == Env({ObsHidden, ObsFull, ObsApp}, {ObsHidden, ObsFull, ObsApp},
               [d \in DirIds |-> {<<"a", "desktop">>, <<"c", "txt">>}],
               {XdgDir}, MaxLive, TRUE)

NextCall ==
    \/ fm_templates_init(CallEnv)
    \/ \E d \in DirIds : on_job_finished(d, CallEnv)
    \/ \E user_only \in BOOLEAN : fm_template_list_all(user_only)
    \/ \E t \in TemplIds : fm_template_create_file(t)

SpecCall == Init /\ [][NextCall]_vars
(***************************************************************************)
(* The threads.  An operation is entered (Enter) and later ends with its   *)
(* whole effect.  on_dir_changed (l.491-568) and fm_template_list_all      *)
(* (l.700-705) lock `templates` when they are entered and unlock it when   *)
(* they end; _fm_templates_init, on_job_finished and                       *)
(* _fm_templates_finalize lock nothing.  The handlers, the initialisation  *)
(* and the teardown run in the thread of the main loop.                    *)
(***************************************************************************)
Locking == {"event", "list_all"}
Operations == [main |-> {"init", "listing", "event", "finalize"},
               caller |-> {"list_all"}]

\* the operation can be called, or its signal can be emitted
CanRun(op) ==
    CASE op = "init" -> templates_dirs = <<>> /\ templ = NoObjects /\ ~job.orphans
      [] op = "listing" -> job.live # {}
      [] op = "event" -> \E d \in Range(templates_dirs) : dirs[d].monitor
      [] op = "finalize" -> templates_dirs # <<>>
      [] op = "list_all" -> TRUE

\* th enters op; G_LOCK waits until the lock is free
Enter(th, op) ==
    /\ Running
    /\ thr[th] = "none"
    /\ CanRun(op)
    /\ op \in Locking => thr.holder = "none"
    /\ thr' = [thr EXCEPT ![th] = op, !.holder = IF op \in Locking THEN th ELSE @]
    /\ UNCHANGED <<templates_dirs, dirs, job, tfile, templ, templates, ext, disk,
                   fault, result, last>>

LockEnv == Env({ObsFull, ObsApp}, {ObsFull, ObsApp},
               [d \in DirIds |-> {<<"a", "desktop">>, <<"c", "txt">>}],
               {XdgDir}, MaxLive, FALSE)

NextLock ==
    \/ \E th \in Threads : \E op \in Operations[th] : Enter(th, op)
    \/ thr.main = "init" /\ fm_templates_init(LockEnv)
    \/ thr.main = "listing" /\ \E d \in DirIds : on_job_finished(d, LockEnv)
    \/ thr.main = "event" /\ \E d \in DirIds : on_dir_changed(d, LockEnv)
    \/ thr.main = "finalize" /\ fm_templates_finalize
    \/ thr.caller = "list_all" /\ \E user_only \in BOOLEAN : fm_template_list_all(user_only)

SpecLock == Init /\ [][NextLock]_vars
(***************************************************************************)
(* The monitor events one by one: every handler leaves in `last` which     *)
(* case of it ran and for which file.                                      *)
(***************************************************************************)
EventEnv == Env({ObsBad, ObsFull}, {ObsBad, ObsHidden, ObsFull},
                [d \in DirIds |-> {<<"a", "desktop">>, <<"c", "txt">>}],
                {XdgDir} \cup SysDirs, MaxLive, TRUE)

NextEvents ==
    \/ fm_templates_init(EventEnv)
    \/ \E d \in DirIds : on_job_finished(d, EventEnv)
    \/ \E d \in DirIds : on_dir_changed(d, EventEnv)

SpecEvents == Init /\ [][NextEvents]_vars
(***************************************************************************)
(* The properties.                                                         *)
(***************************************************************************)
Min(S) == CHOOSE x \in S : \A y \in S : x <= y
Max(S) == CHOOSE x \in S : \A y \in S : y <= x

\* C1: the list `templates` never holds two templates of one MIME type,
\* whatever listings end and whatever the monitors report, in any order.
C1_OneTemplatePerMimeType ==
    \A i, j \in 1..Len(templates) :
        i # j => /\ templates[i] # templates[j]
                 /\ templ[templates[i]].mime_type # templ[templates[j]].mime_type

\* a file of a MIME type that has a template has joined that template
C1_Witness ==
    /\ fault = "none"
    /\ \E t \in Range(templates) : Len(templ[t].files) >= 2

\* C2: once the monitor has reported the deletion of the only file of a
\* template, the template is no more in `templates`, whether a caller holds
\* a reference to it or not.
C2_LastContributorRemovesTemplate ==
    (last.op = "deleted" /\ last.note = "last" /\ fault = "none")
        => last.t \notin Range(templates)

\* C3: a template whose finalizer has started has an empty chain: no entry
\* refers to a template whose destruction has begun.
C3_NoEntryOfDyingTemplate ==
    \A t \in DOMAIN templ : templ[t].finalizing => templ[t].files = <<>>

\* the bit of entry e that the last fm_template_list_all read
InactiveRead(e) ==
    ReadBit(tfile[e].inactive_set, tfile[e].inactive,
            IF e \in DOMAIN result.inactive THEN result.inactive[e] ELSE FALSE)

\* C4: fm_template_list_all(FALSE) returns the templates whose head entry
\* is not inactive, and no other: the entries behind the head do not count.
C4_HeadDecidesVisibility ==
    (result.called /\ ~result.user_only) =>
        \A t \in Range(templates) :
            t \in Range(result.list) <=> ~InactiveRead(Head(templ[t].files))

\* a template with a hidden desktop entry at its head and an active desktop
\* entry behind it is not returned
C4_Witness ==
    /\ result.called
    /\ ~result.user_only
    /\ \E t \in Range(templates) :
          /\ Len(templ[t].files) = 2
          /\ tfile[templ[t].files[1]].inactive_set
          /\ tfile[templ[t].files[1]].inactive
          /\ tfile[templ[t].files[2]].inactive_set
          /\ ~tfile[templ[t].files[2]].inactive
          /\ t \notin Range(result.list)

\* C5: fm_template_list_all(TRUE) returns the templates whose head entry is
\* not inactive and is in one of the two user directories, and no other.
C5_UserOnlyListsUserDirs ==
    (result.called /\ result.user_only) =>
        \A t \in Range(templates) :
            t \in Range(result.list) <=>
                /\ ~InactiveRead(Head(templ[t].files))
                /\ EDir(Head(templ[t].files)) \in {XdgDir, UserDataDir}

\* the place of an entry: the rank of its directory, then desktop entry
\* before plain file
Rank(e) == IndexOf(templates_dirs, EDir(e))
Before(e1, e2) ==
    \/ Rank(e1) < Rank(e2)
    \/ Rank(e1) = Rank(e2) /\ (tfile[e1].is_desktop_entry \/ ~tfile[e2].is_desktop_entry)

\* C6: every chain is sorted by the rank of the directory and, in one
\* directory, desktop entries before plain files, in every state.
C6_ChainSorted ==
    \A t \in DOMAIN templ :
        \A i, j \in 1..Len(templ[t].files) :
            i < j => Before(templ[t].files[i], templ[t].files[j])

\* a Created event has put an entry between two entries of a chain
C6_Witness ==
    /\ last.op = "created"
    /\ last.note = "new"
    /\ fault = "none"
    /\ Len(templ[last.t].files) = 3
    /\ templ[last.t].files[2] = last.file

\* the templates the last handler ran _fm_template_update on
Recomputed == Range(last.updated) \cap DOMAIN templ
Fields == {"target_file", "icon", "command", "label", "prompt"}
Unset == [target_file |-> NoPath, icon |-> NoVal, command |-> NoVal,
          label |-> NoVal, prompt |-> NoVal]
Value(t) == [target_file |-> templ[t].template_file, icon |-> templ[t].icon,
             command |-> templ[t].command, label |-> templ[t].label,
             prompt |-> templ[t].prompt]
\* what the desktop entry file of e defines
Offer(e) ==
    LET c == disk[e]
    IN  [target_file |-> IF c.url # NoUrl THEN ResolveUrl(EDir(e), c.url) ELSE NoPath,
         icon |-> c.icon, command |-> c.exec, label |-> c.name, prompt |-> c.comment]
Parsed(e) == tfile[e].is_desktop_entry /\ disk[e].ok
\* the places in the chain of t of the desktop entries that are parsed, are
\* not hidden and define the field F
Definers(t, F) ==
    {i \in 1..Len(templ[t].files) :
        LET e == templ[t].files[i]
        IN  Parsed(e) /\ ~disk[e].hidden /\ Offer(e)[F] # Unset[F]}
Plains(t) == {i \in 1..Len(templ[t].files) : ~tfile[templ[t].files[i]].is_desktop_entry}
PathOf(e) == PathNewChild(EDir(e), EName(e))

\* C7: after _fm_template_update, a field that some parsed, not hidden
\* desktop entry of the chain defines has the value of the first such entry
\* of the chain; and no field has a value that only a hidden entry defines.
C7_FirstDefinerWins ==
    \A t \in Recomputed : \A F \in Fields :
        /\ Definers(t, F) # {} =>
               Value(t)[F] = Offer(templ[t].files[Min(Definers(t, F))])[F]
        /\ \A e \in Range(templ[t].files) :
               (Parsed(e) /\ disk[e].hidden /\ Offer(e)[F] # Unset[F])
                   => Value(t)[F] # Offer(e)[F]

\* two desktop entries of a chain define the icon, each its own, and a
\* hidden one is in the chain
C7_Witness ==
    \E t \in Recomputed :
        /\ Cardinality({Offer(templ[t].files[i]).icon : i \in Definers(t, "icon")}) = 2
        /\ \E e \in Range(templ[t].files) : Parsed(e) /\ disk[e].hidden

\* C8: after _fm_template_update of a chain with a plain file and a parsed,
\* not hidden desktop entry that defines a URL, the target is the resolved
\* URL of the first such desktop entry, wherever the plain file is in the
\* chain; it is the path of the plain file only if the URL resolves to it.
C8_UrlBeatsPlainFile ==
    \A t \in Recomputed :
        (Definers(t, "target_file") # {} /\ Plains(t) # {}) =>
            LET url == Offer(templ[t].files[Min(Definers(t, "target_file"))]).target_file
            IN  /\ templ[t].template_file = url
                /\ \A i \in Plains(t) :
                       PathOf(templ[t].files[i]) # url
                           => templ[t].template_file # PathOf(templ[t].files[i])

\* the plain file is before the desktop entry that defines the URL
C8_Witness ==
    \E t \in Recomputed :
        /\ Definers(t, "target_file") # {}
        /\ Plains(t) # {}
        /\ Min(Plains(t)) < Min(Definers(t, "target_file"))
        /\ templ[t].template_file # PathOf(templ[t].files[Min(Plains(t))])

\* C9: after _fm_template_update of a chain in which no parsed, not hidden
\* desktop entry defines a URL, the target is the path of the last plain
\* file of the chain, and is unset if the chain has no plain file.
C9_PlainFileFallback ==
    \A t \in Recomputed :
        Definers(t, "target_file") = {} =>
            templ[t].template_file =
                IF Plains(t) # {} THEN PathOf(templ[t].files[Max(Plains(t))]) ELSE NoPath

\* a desktop entry without URL gives the label, before two plain files
C9_Witness ==
    \E t \in Recomputed :
        /\ Definers(t, "target_file") = {}
        /\ Definers(t, "label") = {1}
        /\ Cardinality(Plains(t)) = 2
        /\ templ[t].label = disk[templ[t].files[1]].name

\* C10: a Created event for a file that has no entry in its directory and
\* whose MIME type is found ends with the entry in the list of the
\* directory, once, and in the chain of the template of its type.
C10_CreatedAddsEntry ==
    (last.op = "created" /\ last.note = "new") =>
        /\ fault = "none"
        /\ Cardinality({i \in 1..Len(dirs[EDir(last.file)].files) :
                           dirs[EDir(last.file)].files[i] = last.file}) = 1
        /\ last.file \in Range(templ[last.t].files)

\* C11: the steps of fm_template_create_file.  The application is launched
\* only when it was resolved and the copy succeeded or did not find its source;
\* without an application the call returns FALSE, copies nothing and launches
\* nothing; a copy that fails otherwise makes the call return FALSE without a
\* launch; after a copy that did not find its source the call launches and
\* returns what the launch returns.
C11_CreateFileSteps ==
    last.op = "create_file" =>
        /\ result.create.launched => last.note \in {"copied", "not_found"}
        /\ last.note = "no_app" =>
              /\ fault = "none"
              /\ ~result.create.ret
              /\ ~result.create.copied
              /\ ~result.create.launched
        /\ last.note = "copy_failed" =>
              /\ fault = "none"
              /\ ~result.create.ret
              /\ ~result.create.launched
        /\ last.note = "not_found" =>
              /\ fault = "none"
              /\ result.create.launched
              /\ result.create.ret = result.create.launch_ok

\* C12: a call of fm_template_create_file on a template without template_file,
\* for which an application is resolved, copies nothing, does not fail in the
\* copy step, launches the application and returns what the launch returns.
C12_NoTargetLaunches ==
    (last.op = "create_file" /\ last.note = "no_target") =>
        /\ fault = "none"
        /\ ~result.create.copied
        /\ result.create.launched
        /\ result.create.ret = result.create.launch_ok

\* C13: a call of _fm_templates_init made when the list of directories is
\* built changes neither the list nor any directory (its entries, its monitor),
\* nor the templates and their chains, and starts no listing job.
C13_InitIdempotent ==
    [][(templates_dirs # <<>> /\ last'.op = "init")
         => UNCHANGED <<templates_dirs, dirs, job, tfile, templ, templates>>]_vars

\* the call is made again when a listing has ended and templates are listed
C13_Witness ==
    /\ last.op = "init"
    /\ last.note = "again"
    /\ job.live = {}
    /\ templates # <<>>

\* C14: every operation that changes the registry (the end of a listing, a
\* monitor event, the teardown) and every read of the templates runs, from
\* its start to its end, holding the lock of `templates`; so no two of them
\* overlap.
C14_MutualExclusion ==
    /\ \A th \in Threads :
          thr[th] \in {"listing", "event", "finalize", "list_all"} => thr.holder = th
    /\ ~(/\ thr.main \in {"listing", "event", "finalize"}
         /\ thr.caller = "list_all")

\* C15: an event handler, which holds the lock of `templates`, never locks it
\* again and always gets to its end, where it unlocks; so does the handler of
\* a Deleted event for the last contributor of a template that nobody else
\* holds.
C15_NoRelock ==
    last.op \in {"changed", "deleted", "created"} =>
        fault \notin {"deadlock", "use_after_free"}

\* the steps of the teardown that free a directory or an entry
Frees == {"free_file", "free_dir"}

\* C16, as the code has it: in _fm_templates_finalize the monitor of a
\* directory is detached before that directory or any entry of it is freed
\* (the next directory's monitor is detached after that); no template is
\* recomputed; at the end the list of directories is empty, no entry is left
\* in a chain and no entry is left at all.
C16_TeardownOrderPerDir ==
    [][last'.op = "finalize" =>
         /\ fault' = "none"
         /\ \A d \in Range(templates_dirs) :
               /\ \E j \in 1..Len(last'.steps) : last'.steps[j] = Step("free_dir", d, NoFile)
               /\ dirs[d].monitor =>
                     \E i \in 1..Len(last'.steps) :
                         /\ last'.steps[i] = Step("detach", d, NoFile)
                         /\ \A j \in 1..Len(last'.steps) :
                               (last'.steps[j].what \in Frees /\ last'.steps[j].dir = d)
                                   => i < j
         /\ \A e \in DOMAIN tfile :
               \E j \in 1..Len(last'.steps) : last'.steps[j] = Step("free_file", EDir(e), e)
         /\ last'.updated = <<>>
         /\ templates_dirs' = <<>>
         /\ tfile' = NoObjects
         /\ \A t \in DOMAIN templ' : templ'[t].files = <<>>]_vars

\* a teardown of two directories with a monitor and an entry each
C16_Witness ==
    /\ last.op = "finalize"
    /\ fault = "none"
    /\ Cardinality({i \in 1..Len(last.steps) : last.steps[i].what = "detach"}) = 2
    /\ Cardinality({last.steps[i].dir :
                       i \in {j \in 1..Len(last.steps) : last.steps[j].what = "free_file"}}) = 2

\* C16: in _fm_templates_finalize the monitor of every directory is detached
\* before any directory or any entry is freed; no template is recomputed; at
\* the end the list of directories is empty and no entry is left in a chain.
C16_TeardownDetachesAllFirst ==
    last.op = "finalize" =>
        /\ \A i, j \in 1..Len(last.steps) :
              (last.steps[i].what = "detach" /\ last.steps[j].what \in Frees) => i < j
        /\ last.updated = <<>>
        /\ templates_dirs = <<>>
        /\ \A t \in DOMAIN templ : templ[t].files = <<>>

\* C17: after _fm_templates_finalize no on_job_finished runs for a listing
\* job that was started before it, so none reads or writes a freed
\* FmTemplateDir, even when the teardown comes before the end of a listing.
C17_NoListingAfterTeardown ==
    last.op = "listing" => (last.note # "orphan" /\ fault # "use_after_free")

\* C18: after _fm_template_update every field is what the chain and the
\* contents of its files give now: a field that no parsed, not hidden desktop
\* entry of the chain defines is unset (the target is then the path of a plain
\* file of the chain, if there is one), whatever the field held before.
C18_RecomputeClears ==
    \A t \in Recomputed : \A F \in Fields :
        Definers(t, F) = {} =>
            \/ Value(t)[F] = Unset[F]
            \/ F = "target_file" /\ Plains(t) # {}

\* e1 has a strictly higher priority than e2: an earlier directory, or the
\* same directory and e1 a desktop entry, e2 a plain file
Higher(tf, e1, e2) ==
    \/ Rank(e1) < Rank(e2)
    \/ Rank(e1) = Rank(e2) /\ tf[e1].is_desktop_entry /\ ~tf[e2].is_desktop_entry
SameKey(tf, e1, e2) ==
    EDir(e1) = EDir(e2) /\ tf[e1].is_desktop_entry = tf[e2].is_desktop_entry

\* C19: when a handler adds one entry, _fm_template_insert_sorted links it in
\* right before the first entry of the chain that has not a strictly higher
\* priority than it (at the tail if all have); the entries that were in the
\* chain keep their order; entries of one directory and one kind are next to
\* each other.
C19_InsertPosition ==
    [][(Cardinality(DOMAIN tfile' \ DOMAIN tfile) = 1 /\ fault' = "none") =>
         LET file == CHOOSE f \in DOMAIN tfile' \ DOMAIN tfile : TRUE
             t == tfile'[file].templ
             chain == templ'[t].files
             k == IndexOf(chain, file)
             old == IF t \in DOMAIN templ THEN templ[t].files ELSE <<>>
         IN  /\ file \in Range(chain)
             /\ \A i \in 1..(k - 1) : Higher(tfile', chain[i], file)
             /\ k < Len(chain) => ~Higher(tfile', chain[k + 1], file)
             /\ RemoveAt(chain, k) = old
             /\ \A i, j \in 1..Len(chain) :
                   (i < j /\ SameKey(tfile', chain[i], chain[j])) =>
                       \A m \in i..j : SameKey(tfile', chain[i], chain[m])]_vars

\* a Created event has put an entry right before an entry of its directory
\* and kind, in a chain of three entries
C19_Witness ==
    /\ last.op = "created"
    /\ last.note = "new"
    /\ fault = "none"
    /\ LET chain == templ[last.t].files
           k == IndexOf(chain, last.file)
       IN  /\ k < Len(chain)
           /\ SameKey(tfile, chain[k + 1], last.file)
           /\ Len(chain) = 3

\* how often x is in the list s
Count(s, x) == Cardinality({i \in 1..Len(s) : s[i] = x})

\* C20: between two operations every FmTemplateFile is once in the list of
\* its directory and in no other list, and once in the chain of its template
\* and in no other chain; every element of a directory list or of a chain is
\* an FmTemplateFile that exists; after a Deleted event the entry is in no
\* list and in no chain and exists no more.
C20_EntryMembership ==
    /\ \A e \in DOMAIN tfile :
          /\ \A d \in DirIds :
                Count(dirs[d].files, e) = IF d = EDir(e) THEN 1 ELSE 0
          /\ tfile[e].templ \in DOMAIN templ
          /\ \A t \in DOMAIN templ :
                Count(templ[t].files, e) = IF t = tfile[e].templ THEN 1 ELSE 0
    /\ \A d \in DirIds : Range(dirs[d].files) \subseteq DOMAIN tfile
    /\ \A t \in DOMAIN templ : Range(templ[t].files) \subseteq DOMAIN tfile
    /\ (last.op = "deleted" /\ fault = "none") =>
          /\ last.file \notin DOMAIN tfile
          /\ \A d \in DirIds : last.file \notin Range(dirs[d].files)
          /\ \A t \in DOMAIN templ : last.file \notin Range(templ[t].files)

\* a Deleted event has taken one of the two entries of a chain away
C20_Witness ==
    /\ last.op = "deleted"
    /\ last.note = "nonlast"
    /\ fault = "none"
    /\ Len(templ[last.t].files) = 1
    /\ dirs[EDir(last.file)].files # <<>>

\* C21: no directory has two entries of one file name, whatever the order of
\* the end of its listing and of the Created events for the files listed.
C21_NoDuplicateInDir ==
    \A d \in DirIds :
        \A i, j \in 1..Len(dirs[d].files) :
            i # j => EName(dirs[d].files[i]) # EName(dirs[d].files[j])

\* a Created event has come for a file that the listing had registered, in a
\* directory of two entries
C21_Witness ==
    /\ last.op = "created"
    /\ last.note = "duplicate"
    /\ fault = "none"
    /\ last.file \in DOMAIN tfile
    /\ Len(dirs[EDir(last.file)].files) = 2

\* C22: no handler reads a file (the MIME guess, the load of a desktop entry
\* file) while it holds the lock of `templates`: a handler of the main loop
\* that ends having run _fm_template_update on a chain with a desktop entry,
\* which loads that file, did not hold the lock.
C22_NoIoUnderLock ==
    [][(/\ thr.main # "none"
        /\ thr'.main = "none"
        /\ fault' = "none"
        /\ \E t \in Range(last'.updated) \cap DOMAIN templ' :
               \E e \in Range(templ'[t].files) : tfile'[e].is_desktop_entry)
         => thr.holder # "main"]_vars

\* C23: a Changed event for a plain file, a Changed or Deleted event for a
\* file without entry, a Created event for a file that has an entry, a
\* Created event for a file whose MIME type is not found, and an event of any
\* other kind leave the directory lists, the entries, the templates with
\* their chains and fields, and the list `templates` as they were.
C23_NoOpEvents ==
    [][(/\ fault' = "none"
        /\ \/ last'.op = "ignored"
           \/ /\ last'.file # NoFile
              /\ \/ /\ last'.op = "changed"
                    /\ (last'.file \in DOMAIN tfile => ~tfile[last'.file].is_desktop_entry)
                 \/ last'.op = "deleted" /\ last'.file \notin DOMAIN tfile
                 \/ /\ last'.op = "created"
                    /\ (last'.file \in DOMAIN tfile \/ last'.note = "unresolved"))
         => UNCHANGED <<templates_dirs, dirs, tfile, templ, templates>>]_vars

\* a Created event for a desktop entry file that cannot be read has come when
\* a template was registered
C23_Witness ==
    /\ fault = "none"
    /\ templates # <<>>
    /\ last.op = "created"
    /\ last.note = "unresolved"
    /\ last.file \notin DOMAIN tfile

\* C24: the inactive bit of an entry, as fm_template_list_all reads it, is
\* set only for a desktop entry whose last successful load found Hidden; it
\* is clear for a plain file and for an entry that was never loaded, so
\* fm_template_list_all(FALSE) returns every template whose chain starts with
\* a plain file.
C24_InactiveOnlyIfHidden ==
    /\ \A e \in DOMAIN tfile :
          InactiveRead(e) =>
              /\ tfile[e].is_desktop_entry
              /\ tfile[e].inactive_set
              /\ tfile[e].inactive
    /\ (result.called /\ ~result.user_only) =>
          \A t \in Range(templates) :
              (templ[t].files # <<>> /\ ~tfile[Head(templ[t].files)].is_desktop_entry)
                  => t \in Range(result.list)

\* C25: when fm_template_list_all goes through `templates`, every template of
\* the list has an entry at the head of its chain, whatever listings, events,
\* teardown and callers taking and giving back references came before; the
\* call ends and returns its list.
C25_ListAllFindsHeads ==
    /\ last.op = "list_all" => fault = "none"
    /\ result.called => \A t \in Range(templates) : templ[t].files # <<>>
====
